---------------------------- MODULE Spec2Model ----------------------------
(***************************************************************************)
(* A model of king_backpack_hedge: the hedging loop of king_of_hedge.py    *)
(* (KingOfHedge over BackpackClient and LighterClient), the market-making  *)
(* loop of market_maker.py (MarketMaker over BackpackClient) and the       *)
(* price/quantity helpers of BackpackClient.                               *)
(*                                                                         *)
(* Representation.  A symbol is a sequence of one-character strings.  A    *)
(* quantity of the hedging loop is an integer number of 10^-5 asset units  *)
(* (the code uses Python floats; float rounding error is not modelled).    *)
(* A Decimal of the market maker is a record [c, e] standing for c * 10^e, *)
(* as Python's decimal holds it (coefficient and exponent).                *)
(***************************************************************************)
EXTENDS Integers, Sequences, FiniteSets, TLC

VARIABLES
    bpVenue,              \* primary venue: its open positions
    \* ---- hedging loop (king_of_hedge.py) ----
    hpc,                  \* position of KingOfHedge.run
    hcycle,               \* number of the current hedging iteration
    lgVenue,              \* secondary venue: its positions
    order_book_df,        \* LighterClient.order_book_df (cached market details)
    backpack_positions,   \* the list fetched in this cycle (primary)
    lighter_positions,    \* the list fetched in this cycle (secondary)
    need_hedge_positions, \* the instruction list of this cycle
    hi,                   \* do_hedges: index of the next instruction
    hedgeLog,             \* what do_hedges did in this cycle, one entry per instruction
    hslept,               \* whether the sleep ran since the last iteration ended
    \* ---- market-making loop (market_maker.py) ----
    mpc,                  \* position of MarketMaker.run
    miter,                \* number of the current market-making iteration
    config,               \* the TradingConfig shared by MarketMaker and BackpackClient
    markets,              \* primary venue: what get_markets reports
    restingOrders,        \* primary venue: the open orders of the contract
    curr_contract_amount, \* the position read in this iteration
    mmSides,              \* the batch placements run() called in this iteration
    mmLog,                \* the venue calls of this iteration, in order
    mstarted,             \* get_contract_attributes returned
    mcancelled,           \* the task was cancelled from outside
    mslept,               \* whether the sleep ran since the last iteration ended
    active_close_orders,  \* MarketMaker.active_close_orders
    last_log_time,        \* MarketMaker.last_log_time
    faults,               \* venue calls that failed so far
    \* ---- the pure helpers, applied to drawn arguments ----
    fnCall,               \* the helper and its arguments
    fnResult,             \* its result, once applied
    \* ---- the wall clock ----
    clock                 \* clock[n]: what time.time() returns in iteration n

hvars == <<hpc, hcycle, lgVenue, order_book_df, backpack_positions,
           lighter_positions, need_hedge_positions, hi, hedgeLog, hslept>>

mvars == <<mpc, miter, config, markets, restingOrders, curr_contract_amount,
           mmSides, mmLog, mstarted, mcancelled, mslept, active_close_orders,
           last_log_time, faults>>

fvars == <<fnCall, fnResult>>

vars == <<bpVenue, hvars, mvars, fvars, clock>>

---------------------------------------------------------------------------
(* Bounds of the model. *)

\* hedging iterations explored
MaxCycles == 2

\* market-making iterations explored
MaxIter == 2

\* failed venue calls explored in one run of the market maker
MaxFaults == 1

---------------------------------------------------------------------------
(* Generic helpers. *)

RECURSIVE Pow10(_)
Pow10(n) == IF n <= 0 THEN 1 ELSE 10 * Pow10(n - 1)

Abs(x) == IF x < 0 THEN -x ELSE x

Range(s) == {s[i] : i \in 1..Len(s)}

\* quantities are integers in units of 10^-5 asset
QtyUnit == Pow10(5)

---------------------------------------------------------------------------
(* Python string operations used by the code, on sequences of characters. *)

\* str.find(c) for a one-character c, 1-based; 0 when absent
IndexOfChar(s, c) ==
    IF \E i \in 1..Len(s) : s[i] = c
    THEN CHOOSE i \in 1..Len(s) : s[i] = c /\ \A j \in 1..(i - 1) : s[j] # c
    ELSE 0

\* s.split(c)[0]
SplitFirst(s, c) ==
    IF IndexOfChar(s, c) = 0 THEN s ELSE SubSeq(s, 1, IndexOfChar(s, c) - 1)

UpperChar(c) ==
    CASE c = "e" -> "E"
      [] c = "t" -> "T"
      [] c = "h" -> "H"
      [] c = "u" -> "U"
      [] c = "s" -> "S"
      [] c = "d" -> "D"
      [] c = "c" -> "C"
      [] OTHER -> c

\* str.upper()
Upper(s) == [i \in 1..Len(s) |-> UpperChar(s[i])]

MatchAt(s, pat, i) ==
    /\ i >= 1
    /\ i + Len(pat) - 1 <= Len(s)
    /\ SubSeq(s, i, i + Len(pat) - 1) = pat

\* str.find(pat), 1-based; 0 when absent (Python's -1)
FindSub(s, pat) ==
    IF \E i \in 1..Len(s) : MatchAt(s, pat, i)
    THEN CHOOSE i \in 1..Len(s) :
            MatchAt(s, pat, i) /\ \A j \in 1..(i - 1) : ~MatchAt(s, pat, j)
    ELSE 0

\* str.replace(pat, ''): every non-overlapping occurrence, left to right
RECURSIVE RemoveAll(_, _)
RemoveAll(s, pat) ==
    IF FindSub(s, pat) = 0 THEN s
    ELSE SubSeq(s, 1, FindSub(s, pat) - 1)
         \o RemoveAll(SubSeq(s, FindSub(s, pat) + Len(pat), Len(s)), pat)

USDT == <<"U", "S", "D", "T">>
USDC == <<"U", "S", "D", "C">>
USD == <<"U", "S", "D">>
ETH == <<"E", "T", "H">>
SOL == <<"S", "O", "L">>
ETH_USDC_PERP == <<"E", "T", "H", "_", "U", "S", "D", "C", "_", "P", "E", "R", "P">>
ETH_USDT_PERP == <<"E", "T", "H", "_", "U", "S", "D", "T", "_", "P", "E", "R", "P">>
SOL_USDC_PERP == <<"S", "O", "L", "_", "U", "S", "D", "C", "_", "P", "E", "R", "P">>

---------------------------------------------------------------------------
(* KingOfHedge.get_unified_symbol *)

StripQuote(res) ==
    IF FindSub(res, USDT) > 0 THEN RemoveAll(res, USDT)
    ELSE IF FindSub(res, USD) > 0 THEN RemoveAll(res, USD)
    ELSE res

get_unified_symbol(symbol, platform) ==
    IF platform = "backpack" \/ platform = "edgex"
    THEN StripQuote(Upper(SplitFirst(symbol, "_")))
    ELSE symbol

---------------------------------------------------------------------------
(* KingOfHedge.get_need_hedge_positions: the two loops over the fetched    *)
(* lists.                                                                  *)

\* line 79-91: the first secondary entry with a non-zero position and the key
LighterMatch(lg, key) ==
    {j \in 1..Len(lg) :
        /\ Abs(lg[j].position) # 0
        /\ get_unified_symbol(lg[j].symbol, "lighter") = key}

FirstOf(S) == CHOOSE j \in S : \A k \in S : j <= k

LighterQuantityFor(lg, key) ==
    IF LighterMatch(lg, key) = {} THEN 0
    ELSE lg[FirstOf(LighterMatch(lg, key))].position
         * lg[FirstOf(LighterMatch(lg, key))].sign

\* a sign slip in line 93: the secondary quantity added instead of subtracted
NeedHedgeQuantityAdded(quantity, lighter_quantity) == (-quantity) + lighter_quantity

\* line 93
NeedHedgeQuantity(quantity, lighter_quantity) == (-quantity) - lighter_quantity

\* lines 70-97: one instruction per primary entry
PrimaryInstructions(bp, lg) ==
    [i \in 1..Len(bp) |->
        [symbol |-> get_unified_symbol(bp[i].symbol, "backpack"),
         quantity |-> NeedHedgeQuantity(
             bp[i].netQuantity,
             LighterQuantityFor(lg, get_unified_symbol(bp[i].symbol, "backpack")))]]

\* the second loop taking every secondary entry as matched
FoundOnPrimaryAlways(bp, key) == TRUE

\* lines 109-119
FoundOnPrimary(bp, key) ==
    \E i \in 1..Len(bp) : get_unified_symbol(bp[i].symbol, "backpack") = key

\* lines 121-125: the instruction of an unmatched secondary entry
UnmatchedInstruction(entry) ==
    [symbol |-> entry.symbol, quantity |-> -(entry.position * entry.sign)]

\* lines 99-125: one instruction per non-zero secondary entry without a primary match
RECURSIVE SecondaryInstructions(_, _, _)
SecondaryInstructions(bp, lg, j) ==
    IF j > Len(lg) THEN <<>>
    ELSE IF Abs(lg[j].position * lg[j].sign) = 0
         THEN SecondaryInstructions(bp, lg, j + 1)
    ELSE IF FoundOnPrimary(bp, get_unified_symbol(lg[j].symbol, "lighter"))
         THEN SecondaryInstructions(bp, lg, j + 1)
    ELSE <<UnmatchedInstruction(lg[j])>> \o SecondaryInstructions(bp, lg, j + 1)

get_need_hedge_positions(bp, lg) ==
    PrimaryInstructions(bp, lg) \o SecondaryInstructions(bp, lg, 1)

---------------------------------------------------------------------------
(* LighterClient: market details, unit conversion, market orders. *)

\* what OrderApi.order_book_details reports (lighter_client.py lines 198-201
\* show the ETH row: market_id 0, min_base_amount 0.0050, size_decimals 4)
LighterMarkets ==
    << [symbol |-> ETH, market_id |-> 0, size_decimals |-> 4, min_base_amount |-> 500],
       [symbol |-> SOL, market_id |-> 2, size_decimals |-> 3, min_base_amount |-> 5000] >>

\* get_order_book_details runs only while the cache is empty; when the call
\* fails the exception is swallowed and the cache stays empty
LoadOrderBook(df, ok) == IF Len(df) = 0 /\ ok THEN LighterMarkets ELSE df

\* symbol_name: the USDC branch calls the non-existent str.repace
SymbolNameRaises(symbol) == FindSub(symbol, USDT) = 0 /\ FindSub(symbol, USDC) > 0

symbol_name(symbol) ==
    Upper(IF FindSub(symbol, USDT) > 0 THEN RemoveAll(symbol, USDT) ELSE symbol)

MarketRows(df, symbol) == SelectSeq(df, LAMBDA r : r.symbol = symbol_name(symbol))

get_symbol_market_id(df, symbol) ==
    IF Len(MarketRows(df, symbol)) = 0 THEN -1
    ELSE MarketRows(df, symbol)[1].market_id

\* line 64-66: an amount below the market's minimum is replaced by the minimum
ClampToMinBase(basic_amount, min_base_amount) ==
    IF basic_amount < min_base_amount THEN min_base_amount ELSE basic_amount

\* the float 10 ** size_decimals * amount, as a number of 10^-5 lots
to_lighter_amount(df, symbol, basic_amount) ==
    IF Len(MarketRows(df, symbol)) = 0 THEN 0
    ELSE Pow10(MarketRows(df, symbol)[1].size_decimals)
         * ClampToMinBase(basic_amount, MarketRows(df, symbol)[1].min_base_amount)

\* int(lighter_amount) of a non-negative float: truncation
IntOf(scaled) == scaled \div QtyUnit

\* place_buy_market_order / place_sell_market_order up to the venue call:
\* df1 is the cache after get_symbol_market_id, df2 after to_lighter_amount
MarketOrderRequest(df, symbol, amount, ok1, ok2) ==
    LET df1 == LoadOrderBook(df, ok1)
        df2 == LoadOrderBook(df1, ok2)
    IN  IF SymbolNameRaises(symbol)
        THEN [raises |-> TRUE, df |-> df1, market_index |-> -1, base_amount |-> 0]
        ELSE [raises |-> get_symbol_market_id(df1, symbol) = -1
                         \/ IntOf(to_lighter_amount(df2, symbol, amount)) = 0,
              df |-> df2,
              market_index |-> get_symbol_market_id(df1, symbol),
              base_amount |-> IntOf(to_lighter_amount(df2, symbol, amount))]

\* the secondary venue executing a market order in full: the position of the
\* market moves by base_amount lots (bought when is_ask is FALSE)
SignedOf(entry) == entry.position * entry.sign

MarketSymbol(market_index) ==
    (CHOOSE r \in Range(LighterMarkets) : r.market_id = market_index).symbol

LotUnits(market_index) ==
    QtyUnit \div Pow10((CHOOSE r \in Range(LighterMarkets) :
                            r.market_id = market_index).size_decimals)

MovedEntry(sym, signed) ==
    [symbol |-> sym, position |-> Abs(signed), sign |-> IF signed < 0 THEN -1 ELSE 1]

ApplyFill(lg, market_index, base_amount, is_ask) ==
    LET sym == MarketSymbol(market_index)
        d == (IF is_ask THEN -1 ELSE 1) * base_amount * LotUnits(market_index)
    IN  IF \E j \in 1..Len(lg) : lg[j].symbol = sym
        THEN [j \in 1..Len(lg) |->
                 IF lg[j].symbol = sym THEN MovedEntry(sym, SignedOf(lg[j]) + d)
                 ELSE lg[j]]
        ELSE Append(lg, MovedEntry(sym, d))

---------------------------------------------------------------------------
(* KingOfHedge.do_hedges and KingOfHedge.run *)

\* 0.001 asset, in 10^-5 units
HedgeThreshold == 100

\* lines 134-137: which order an instruction asks for
HedgeSide(quantity) ==
    IF quantity >= HedgeThreshold THEN "buy"
    ELSE IF quantity <= -HedgeThreshold THEN "sell"
    ELSE "none"

Optional(entries) == {<<>>} \cup {<<e>> : e \in entries}

BpEntries(sym, qtys) == {[symbol |-> sym, netQuantity |-> q] : q \in qtys}

\* what get_open_positions may report: two markets of the same asset
BpVenueLists ==
    {a \o b : a \in Optional(BpEntries(ETH_USDC_PERP, {-1234, -100, 0})),
              b \in Optional(BpEntries(ETH_USDT_PERP, {110}))}

LgEntries(sym, positions) ==
    {[symbol |-> sym, position |-> Abs(p), sign |-> IF p < 0 THEN -1 ELSE 1] :
        p \in positions}

\* what AccountApi.account may report: one position per market
LgVenueLists ==
    {a \o b : a \in Optional(LgEntries(ETH, {0, 50, -1000})),
              b \in Optional(LgEntries(SOL, {5000}))}

HedgeStart ==
    /\ hpc = "iter_start"
    /\ hcycle = 1
    /\ lgVenue \in LgVenueLists
    /\ order_book_df = <<>>
    /\ backpack_positions = <<>>
    /\ lighter_positions = <<>>
    /\ need_hedge_positions = <<>>
    /\ hi = 1
    /\ hedgeLog = <<>>
    /\ hslept = FALSE

\* run line 144: get_need_hedge_positions.  A fetch whose venue call raises
\* returns the empty list (kb = 0, kl = 0), the venue's list otherwise.
HedgeGetNeed ==
    /\ hpc = "iter_start"
    /\ \E kb \in {0, Len(bpVenue)}, kl \in {0, Len(lgVenue)} :
        /\ backpack_positions' = SubSeq(bpVenue, 1, kb)
        /\ lighter_positions' = SubSeq(lgVenue, 1, kl)
        /\ need_hedge_positions' =
               get_need_hedge_positions(SubSeq(bpVenue, 1, kb), SubSeq(lgVenue, 1, kl))
    /\ hpc' = "do_hedges"
    /\ hi' = 1
    /\ hedgeLog' = <<>>
    /\ hslept' = FALSE
    /\ UNCHANGED <<hcycle, bpVenue, lgVenue, order_book_df>>
    /\ UNCHANGED <<mvars, fvars, clock>>

\* an exception raised inside get_need_hedge_positions (float() of a field
\* the venue left empty, lines 81, 93, 101) reaches run's handler
HedgeGetNeedRaises ==
    /\ hpc = "iter_start"
    /\ hpc' = "except"
    /\ hedgeLog' = <<>>
    /\ hslept' = FALSE
    /\ UNCHANGED <<hcycle, bpVenue, lgVenue, order_book_df, backpack_positions,
                   lighter_positions, need_hedge_positions, hi>>
    /\ UNCHANGED <<mvars, fvars, clock>>

\* do_hedges returning after its first instruction
AfterFirstInstruction(i) == "sleep"

\* where run goes after instruction number i of do_hedges
AfterInstruction(i) == IF i >= Len(need_hedge_positions) THEN "sleep" ELSE "do_hedges"

\* do_hedges, one pass of its for loop (lines 130-139)
DoHedgeStep ==
    /\ hpc = "do_hedges"
    /\ hi <= Len(need_hedge_positions)
    /\ LET ins == need_hedge_positions[hi]
           side == HedgeSide(ins.quantity)
       IN  IF side = "none"
           THEN /\ hedgeLog' = Append(hedgeLog,
                       [index |-> hi, symbol |-> ins.symbol, quantity |-> ins.quantity,
                        side |-> "none", outcome |-> "skipped", market_index |-> -1,
                        base_amount |-> 0])
                /\ UNCHANGED <<lgVenue, order_book_df>>
           ELSE \E ok1 \in BOOLEAN, ok2 \in BOOLEAN,
                   venue \in {"filled", "raise"} :
                   LET req == MarketOrderRequest(order_book_df, ins.symbol,
                                                 Abs(ins.quantity), ok1, ok2)
                       outcome == IF req.raises THEN "invalid" ELSE venue
                   IN  /\ order_book_df' = req.df
                       /\ lgVenue' =
                              IF outcome = "filled"
                              THEN ApplyFill(lgVenue, req.market_index,
                                             req.base_amount, side = "sell")
                              ELSE lgVenue
                       /\ hedgeLog' = Append(hedgeLog,
                              [index |-> hi, symbol |-> ins.symbol,
                               quantity |-> ins.quantity, side |-> side,
                               outcome |-> outcome, market_index |-> req.market_index,
                               base_amount |-> req.base_amount])
    /\ hi' = hi + 1
    /\ hpc' = AfterInstruction(hi)
    /\ UNCHANGED <<hcycle, bpVenue, backpack_positions, lighter_positions,
                   need_hedge_positions, hslept>>
    /\ UNCHANGED <<mvars, fvars, clock>>

\* do_hedges of an empty list returns at once
DoHedgeNothing ==
    /\ hpc = "do_hedges"
    /\ Len(need_hedge_positions) = 0
    /\ hpc' = "sleep"
    /\ UNCHANGED <<hcycle, bpVenue, lgVenue, order_book_df, backpack_positions,
                   lighter_positions, need_hedge_positions, hi, hedgeLog, hslept>>
    /\ UNCHANGED <<mvars, fvars, clock>>

\* run line 147: asyncio.sleep(5) returns and the loop starts over
HedgeSleep ==
    /\ hpc = "sleep"
    /\ hcycle < MaxCycles
    /\ hpc' = "iter_start"
    /\ hcycle' = hcycle + 1
    /\ hslept' = TRUE
    /\ UNCHANGED <<bpVenue, lgVenue, order_book_df, backpack_positions,
                   lighter_positions, need_hedge_positions, hi, hedgeLog>>
    /\ UNCHANGED <<mvars, fvars, clock>>

\* run lines 148-149: the handler logs and the loop starts over
HedgeExcept ==
    /\ hpc = "except"
    /\ hcycle < MaxCycles
    /\ hpc' = "iter_start"
    /\ hcycle' = hcycle + 1
    /\ UNCHANGED <<bpVenue, lgVenue, order_book_df, backpack_positions,
                   lighter_positions, need_hedge_positions, hi, hedgeLog, hslept>>
    /\ UNCHANGED <<mvars, fvars, clock>>

\* the task is cancelled from outside while it waits (CancelledError is no
\* Exception: no handler of run catches it)
HedgeCancel ==
    /\ hpc \in {"do_hedges", "sleep"}
    /\ hpc' = "cancelled"
    /\ UNCHANGED <<hcycle, bpVenue, lgVenue, order_book_df, backpack_positions,
                   lighter_positions, need_hedge_positions, hi, hedgeLog, hslept>>
    /\ UNCHANGED <<mvars, fvars, clock>>

HedgeNext ==
    \/ HedgeGetNeed
    \/ HedgeGetNeedRaises
    \/ DoHedgeStep
    \/ DoHedgeNothing
    \/ HedgeSleep
    \/ HedgeExcept
    \/ HedgeCancel


---------------------------------------------------------------------------
(* BackpackClient: prices are integers in units of 10^-3, quantities in     *)
(* units of 10^-5; a tick size is a Decimal [c, e] = c * 10^e, whose        *)
(* exponent is what Decimal.quantize reads.                                 *)

\* the value of a tick size Decimal, in price units
TickValue(tick) == tick.c * Pow10(tick.e + 3)

\* 10^e of the tick size's exponent, in price units
TickQuantum(tick) == Pow10(tick.e + 3)

\* ROUND_HALF_UP of x / q to an integer: ties go away from zero
RoundHalfUp(x, q) ==
    IF x >= 0 THEN (2 * x + q) \div (2 * q)
    ELSE -((2 * (-x) + q) \div (2 * q))

\* round_to_tick: price.quantize(tick, rounding=ROUND_HALF_UP) rounds the
\* price to the exponent of tick
round_to_tick(price, tick) == RoundHalfUp(price, TickQuantum(tick)) * TickQuantum(tick)

\* a rounding toward minus infinity (ROUND_FLOOR)
FloorDiv(a, b) == a \div b

\* to_integral_value(rounding=ROUND_DOWN) of a / b: truncation toward zero
TruncDiv(a, b) ==
    (IF (a < 0) = (b < 0) THEN 1 ELSE -1) * (Abs(a) \div Abs(b))

\* Decimal division by zero raises
AlignFloorRaises(quantity, min_quantity) == min_quantity = 0

\* the quantity handed on as configured, without alignment
AlignNone(quantity, min_quantity) == quantity

align_floor(quantity, min_quantity) == TruncDiv(quantity, min_quantity) * min_quantity

---------------------------------------------------------------------------
(* BackpackClient.get_contract_attributes *)

\* line 284-285
MarketMatches(market, ticker) ==
    /\ market.marketType = "PERP"
    /\ market.baseSymbol = ticker
    /\ market.quoteSymbol = USDC

MatchingMarkets(ms, ticker) == {n \in 1..Len(ms) : MarketMatches(ms[n], ticker)}

\* lines 282-291: the configuration after the loop over the markets
ConfigAfterLookup(cfg, ms) ==
    IF MatchingMarkets(ms, cfg.ticker) = {} THEN cfg
    ELSE [cfg EXCEPT !.contract_id = ms[FirstOf(MatchingMarkets(ms, cfg.ticker))].symbol,
                     !.tick_size = ms[FirstOf(MatchingMarkets(ms, cfg.ticker))].tickSize,
                     !.min_quantity = ms[FirstOf(MatchingMarkets(ms, cfg.ticker))].minQuantity]

\* line 282, 288: min_quantity is 0 unless a market matched
LookupMinQuantity(cfg, ms) ==
    IF MatchingMarkets(ms, cfg.ticker) = {} THEN 0
    ELSE ms[FirstOf(MatchingMarkets(ms, cfg.ticker))].minQuantity

\* the check of line 301 missing
TickSizeNeverRejected(tick) == FALSE

\* line 301: the tick size check
TickSizeRejected(tick) == tick.c = 0

\* lines 276-303: the checks that raise ValueError
ContractAttributesRaise(cfg, ms) ==
    \/ Len(cfg.ticker) = 0
    \/ ConfigAfterLookup(cfg, ms).contract_id = <<>>
    \/ cfg.quantity < LookupMinQuantity(cfg, ms)
    \/ TickSizeRejected(ConfigAfterLookup(cfg, ms).tick_size)

\* the configuration get_contract_attributes leaves behind: an empty ticker
\* raises before the lookup
get_contract_attributes(cfg, ms) ==
    IF Len(cfg.ticker) = 0 THEN cfg ELSE ConfigAfterLookup(cfg, ms)

---------------------------------------------------------------------------
(* BackpackClient: open orders, cancellation, batch placement. *)

\* get_active_orders: an empty answer when the venue call raises
get_active_orders(resting, ok) == IF ok THEN resting ELSE <<>>

\* cancel_order: what the venue answered and the OrderResult built from it
CancelSuccess(response) == response \in {"ok", "code"}

\* the venue cancels the order only when it answers without an error
CancelRemoves(response) == response = "ok"

\* the answers of account_client.cancel_order as cancel_order tells them
\* apart: the call raises; an empty answer (None, {}); a dict, with or
\* without the key 'code', whose executedQuantity is absent, a decimal or a
\* value Decimal() rejects; a non-empty answer that is no dict (a text)
CancelAnswers ==
    {[kind |-> k, code |-> FALSE, executed |-> "absent", value |-> 0] :
        k \in {"raise", "empty"}}
    \cup [kind : {"dict"}, code : BOOLEAN,
          executed : {"absent", "decimal", "invalid"}, value : {0, 400}]
    \cup [kind : {"text"}, code : BOOLEAN, executed : {"absent"}, value : {0}]

\* lines 206-207: the handler of the exceptions raised inside cancel_order
CancelException == [success |-> FALSE, error_message |-> "exception"]

\* line 203: Decimal(cancel_result.get('executedQuantity', 0))
ExecutedQuantity(answer) == IF answer.executed = "absent" THEN 0 ELSE answer.value

\* cancel_order reporting an error response of the venue as a failure
CancelOrderCodeFails(answer, quantity) ==
    IF answer.kind = "dict" /\ ~answer.code /\ answer.executed # "invalid"
    THEN [success |-> TRUE, filled_size |-> ExecutedQuantity(answer)]
    ELSE CancelException

\* BackpackClient.cancel_order: the OrderResult built from the venue's answer;
\* .get on an answer that is no dict raises, on line 200 when the answer
\* holds 'code' and on line 203 when it does not
cancel_order(answer, quantity) ==
    IF answer.kind = "raise" THEN CancelException
    ELSE IF answer.kind = "empty"
    THEN [success |-> FALSE, error_message |-> "Failed to cancel order"]
    ELSE IF answer.kind # "dict" THEN CancelException
    ELSE IF answer.code THEN [success |-> TRUE, filled_size |-> quantity]
    ELSE IF answer.executed = "invalid" THEN CancelException
    ELSE [success |-> TRUE, filled_size |-> ExecutedQuantity(answer)]

\* MarketMaker.close_all_orders: one query, then one cancel call per order
\* of the answer; responses[n] is the venue's answer to the n-th cancel
CloseAllResting(resting, ok, responses) ==
    IF ok
    THEN SelectSeq([n \in 1..Len(resting) |->
                        [order |-> resting[n], keep |-> ~CancelRemoves(responses[n])]],
                   LAMBDA x : x.keep)
    ELSE [n \in 1..Len(resting) |-> [order |-> resting[n], keep |-> TRUE]]

OrdersOf(marked) == [n \in 1..Len(marked) |-> marked[n].order]

\* close_all_orders sending every cancel call a second time
CloseAllLogRetried(resting, ok) ==
    <<[call |-> "get_open_orders"]>>
    \o [n \in 1..Len(get_active_orders(resting, ok)) |->
            [call |-> "cancel_order", id |-> resting[n].id]]
    \o [n \in 1..Len(get_active_orders(resting, ok)) |->
            [call |-> "cancel_order", id |-> resting[n].id]]

CloseAllLog(resting, ok) ==
    <<[call |-> "get_open_orders"]>>
    \o [n \in 1..Len(get_active_orders(resting, ok)) |->
            [call |-> "cancel_order", id |-> resting[n].id]]

\* lines 73-79
CloseOrderDicts(orders) ==
    [n \in 1..Len(orders) |->
        [id |-> orders[n].id, price |-> orders[n].price, size |-> orders[n].quantity]]

\* the answers the venue may give to the cancel calls of one close_all_orders:
\* at most `budget` of them are failures
CancelResponses(n, budget) ==
    UNION {{[k \in 1..n |-> IF k \in failed THEN kinds[k] ELSE "ok"] :
               kinds \in [failed -> {"raise", "empty", "code"}]} :
           failed \in {f \in SUBSET (1..n) : Cardinality(f) <= budget}}

FailedCancels(n, r) == Cardinality({k \in 1..n : r[k] # "ok"})

\* lines 92, 94, 157: the price of ladder level i before rounding
LadderBase(book, base_multiple) ==
    base_multiple * (book.asks[1] - book.bids[Len(book.bids)])

LevelPrice(side, book, base_multiple, i) ==
    IF side = "Bid"
    THEN book.bids[Len(book.bids)] - LadderBase(book, base_multiple) * i
    ELSE book.asks[1] + LadderBase(book, base_multiple) * i

\* the order books get_depth may report: a wide book, a tight book, and the
\* tight book after the market moved down by 0.09
Books ==
    { [bids |-> <<98000, 100000>>, asks |-> <<101000, 102000>>],
      [bids |-> <<99990, 100000>>, asks |-> <<100010, 100020>>],
      [bids |-> <<99900, 99910>>, asks |-> <<99920, 99930>>] }

EmptyBook == [bids |-> <<>>, asks |-> <<>>]

\* get_depth: a book, a book without levels, an answer that is no dict, an exception
DepthAnswers ==
    {[kind |-> "book", book |-> b] : b \in Books}
    \cup {[kind |-> k, book |-> EmptyBook] : k \in {"nolevels", "notdict", "raise"}}

\* the batch ends by an exception: the division in align_floor, the venue
\* call, or bids[-1] / asks[0] of a book without levels
BatchRaises(cfg, depth) ==
    \/ AlignFloorRaises(cfg.quantity, cfg.min_quantity)
    \/ depth.kind \in {"raise", "nolevels"}

\* the levels the batch submits: none when the answer is no dict
BatchLevels(cfg, depth) ==
    IF BatchRaises(cfg, depth) \/ depth.kind = "notdict" THEN 0 ELSE cfg.max_orders

\* what execute_order may answer: an order, an exception, None, an empty
\* dict, an error payload, an order without id
PlaceAnswers == {"ok", "raise", "none", "emptydict", "code", "noid"}

\* whether the batch appends the answer's id to the list it returns
\* (the buy batch has no continue after its check of an empty answer)
AppendsId(side, answer) ==
    \/ answer \in {"ok", "noid"}
    \/ side = "Bid" /\ answer = "emptydict"

\* the order of ladder level i as the batch submits it
LadderOrder(side, cfg, depth, iter, i) ==
    [id |-> <<iter, side, i>>,
     side |-> side,
     price |-> round_to_tick(LevelPrice(side, depth.book, cfg.base_multiple, i),
                             cfg.tick_size),
     quantity |-> align_floor(cfg.quantity, cfg.min_quantity),
     tick_size |-> cfg.tick_size,
     min_quantity |-> cfg.min_quantity]

\* the orders that rest on the venue after the batch
BatchPlaced(side, cfg, depth, iter, answers) ==
    SelectSeq([i \in 1..BatchLevels(cfg, depth) |->
                   [order |-> LadderOrder(side, cfg, depth, iter, i),
                    keep |-> answers[i] = "ok"]],
              LAMBDA x : x.keep)

\* the identifier list the batch returns (<<>> stands for None)
BatchReturned(side, cfg, depth, iter, answers) ==
    LET all == [i \in 1..BatchLevels(cfg, depth) |->
                   [id |-> IF answers[i] = "ok" THEN <<iter, side, i>> ELSE <<>>,
                    keep |-> AppendsId(side, answers[i])]]
    IN  [n \in 1..Len(SelectSeq(all, LAMBDA x : x.keep)) |->
            SelectSeq(all, LAMBDA x : x.keep)[n].id]

BatchLog(side, cfg, depth, iter, answers) ==
    (IF AlignFloorRaises(cfg.quantity, cfg.min_quantity) THEN <<>>
     ELSE <<[call |-> "get_depth", side |-> side, book |-> depth.book]>>)
    \o [i \in 1..BatchLevels(cfg, depth) |->
            [call |-> "execute_order", side |-> side, level |-> i,
             price |-> LadderOrder(side, cfg, depth, iter, i).price,
             quantity |-> LadderOrder(side, cfg, depth, iter, i).quantity,
             answer |-> answers[i]]]

\* the answers of one batch: at most `budget` of them are failures
BatchAnswers(n, budget) ==
    {r \in [1..n -> PlaceAnswers] :
        Cardinality({k \in 1..n : r[k] # "ok"}) <= budget}

FailedAnswers(n, r) == Cardinality({k \in 1..n : r[k] # "ok"})

DepthFault(depth) == IF depth.kind = "book" THEN 0 ELSE 1

---------------------------------------------------------------------------
(* MarketMaker.run *)

\* the default of line 121 set to the cap: a list without the contract
\* counts as a full position
ContractAmountDefaultCap(all_positions, contract_id) ==
    IF \E n \in 1..Len(all_positions) : all_positions[n].symbol = contract_id
    THEN all_positions[FirstOf({n \in 1..Len(all_positions) :
                                   all_positions[n].symbol = contract_id})].netQuantity
    ELSE config.max_position_count

\* lines 121-126: the position of the contract, 0 when the list has none
ContractAmount(all_positions, contract_id) ==
    IF \E n \in 1..Len(all_positions) : all_positions[n].symbol = contract_id
    THEN all_positions[FirstOf({n \in 1..Len(all_positions) :
                                   all_positions[n].symbol = contract_id})].netQuantity
    ELSE 0

\* line 128: the division raises when the cap is zero
PositionRateRaises(max_position_count) == max_position_count = 0

\* the comparisons of lines 132 and 147 with the boundary on the other side
SidesForBoundarySlip(amount, max_position_count) ==
    IF Abs(amount) <= max_position_count THEN <<"Bid", "Ask">>
    ELSE IF amount > max_position_count THEN <<"Ask">>
    ELSE <<"Bid">>

\* lines 132-166: the batch placements of one iteration, in call order
SidesFor(amount, max_position_count) ==
    IF Abs(amount) < max_position_count THEN <<"Bid", "Ask">>
    ELSE IF amount >= max_position_count THEN <<"Ask">>
    ELSE <<"Bid">>

\* line 36 of _log_status_periodically
StatusCheckDue(now, last) == now - last > 60 \/ last = 0

\* the seconds between the calls of _log_status_periodically of two
\* successive iterations: the sleep of config.wait_time (2.95 s in main) and
\* a few venue calls, or more than a minute when the venue is slow
ClockGaps == {3, 61}

\* time.time() in the first iteration, in seconds
FirstReadings == {1, 1000}

RECURSIVE Clocks(_)
\* the readings of time.time() of n successive iterations
Clocks(n) ==
    IF n = 1 THEN {<<t>> : t \in FirstReadings}
    ELSE {Append(c, c[n - 1] + gap) : c \in Clocks(n - 1), gap \in ClockGaps}

\* iterations following each other at the pace of main's wait_time
MainClock == [n \in 1..MaxIter |-> 1000 + 3 * (n - 1)]

\* TradingConfig.close_order_side, as the side of the venue's order
CloseOrderSide(cfg) == IF cfg.direction = "sell" THEN "Bid" ELSE "Ask"

\* lines 40-50: the close orders among the venue's open orders
StatusCloseOrders(cfg, orders) ==
    CloseOrderDicts(SelectSeq(orders, LAMBDA o : o.side = CloseOrderSide(cfg)))

StatusLog == <<[call |-> "get_open_orders"], [call |-> "get_open_positions"]>>

\* the TradingConfig of market_maker.main, in model units
MainConfig(max_orders) ==
    [ticker |-> ETH, contract_id |-> <<>>, tick_size |-> [c |-> 0, e |-> 0],
     min_quantity |-> 0, quantity |-> 1000, max_position_count |-> 10000,
     max_orders |-> max_orders, base_multiple |-> 2, direction |-> "buy"]

EthMarket(type, symbol, tick, minq) ==
    [marketType |-> type, baseSymbol |-> ETH, quoteSymbol |-> USDC, symbol |-> symbol,
     minQuantity |-> minq, tickSize |-> tick]

SolMarket ==
    [marketType |-> "PERP", baseSymbol |-> SOL, quoteSymbol |-> USDC,
     symbol |-> SOL_USDC_PERP, minQuantity |-> 1000, tickSize |-> [c |-> 1, e |-> -2]]

\* tick sizes a market may report; [0, 0] is also what a missing filter gives
TickSizes ==
    {[c |-> 1, e |-> -2], [c |-> 25, e |-> -2], [c |-> 5, e |-> -1],
     [c |-> 0, e |-> 0], [c |-> -1, e |-> -2]}

\* minimum quantities a market may report; 0 is also what a missing filter gives
MinQuantities == {100, 300, 0, 2000, -100}

\* what get_markets may report
MarketLists ==
    {<<SolMarket, EthMarket("PERP", ETH_USDC_PERP, t, 100)>> :
        t \in TickSizes}
    \cup {<<SolMarket, EthMarket("PERP", ETH_USDC_PERP, [c |-> 1, e |-> -2], q)>> :
            q \in MinQuantities}
    \cup {<<SolMarket>>,
          <<SolMarket, EthMarket("SPOT", <<"E", "T", "H", "_", "U", "S", "D", "C">>,
                                 [c |-> 1, e |-> -2], 100)>>,
          <<EthMarket("PERP", <<>>, [c |-> 1, e |-> -2], 100)>>}

\* the positions the primary venue may hold while the market maker runs
MMVenuePositions ==
    {<<>>}
    \cup {<<[symbol |-> SOL_USDC_PERP, netQuantity |-> 5000],
            [symbol |-> ETH_USDC_PERP, netQuantity |-> p]>> :
            p \in {-20000, -10000, -9000, 10000}}

\* the market list of the venue in regular operation
RegularMarkets ==
    <<SolMarket, EthMarket("PERP", ETH_USDC_PERP, [c |-> 1, e |-> -2], 100)>>

\* an order a process that crashed earlier left resting on the venue
LeftoverOrder(side, price) ==
    [id |-> <<0, side, 1>>, side |-> side, price |-> price, quantity |-> 1000,
     tick_size |-> [c |-> 1, e |-> -2], min_quantity |-> 100]

\* what rests on the venue when the process starts: nothing, or the orders
\* of a process that crashed after its bid batch or after both batches
LeftoverOrders ==
    {<<>>,
     <<LeftoverOrder("Bid", 97000)>>,
     <<LeftoverOrder("Bid", 97000), LeftoverOrder("Ask", 104000)>>}

\* the runs explored: every market list with the configuration of main and
\* no position, and the regular market list with every position, every
\* ladder depth and every set of leftover orders
MMStartCases ==
    {<<MainConfig(1), ms, <<>>, <<>>>> : ms \in MarketLists}
    \cup {<<MainConfig(n), RegularMarkets, v, left>> :
            n \in {1, 2}, v \in MMVenuePositions, left \in LeftoverOrders}

MMStart ==
    /\ mpc = "startup"
    /\ miter = 1
    /\ \E case \in MMStartCases :
          /\ config = case[1]
          /\ markets = case[2]
          /\ bpVenue = case[3]
          /\ restingOrders = case[4]
    /\ curr_contract_amount = 0
    /\ mmSides = <<>>
    /\ mmLog = <<>>
    /\ mstarted = FALSE
    /\ mcancelled = FALSE
    /\ mslept = FALSE
    /\ active_close_orders = <<>>
    /\ last_log_time = 0
    /\ faults = 0

\* run lines 112-113: get_contract_attributes; get_markets may raise
MMStartup ==
    /\ mpc = "startup"
    /\ \E ok \in BOOLEAN :
        /\ faults + (IF ok THEN 0 ELSE 1) <= MaxFaults
        /\ faults' = faults + (IF ok THEN 0 ELSE 1)
        /\ config' = IF ok THEN get_contract_attributes(config, markets) ELSE config
        /\ mstarted' = (ok /\ ~ContractAttributesRaise(config, markets))
        /\ mpc' = IF ok /\ ~ContractAttributesRaise(config, markets)
                  THEN "iter_start" ELSE "fatal"
    /\ UNCHANGED <<miter, markets, restingOrders, curr_contract_amount, mmSides, mmLog,
                   mcancelled, mslept, active_close_orders, last_log_time, bpVenue, hvars, fvars, clock>>

\* close_all_limit_orders (lines 93-107) in the place of close_all_orders:
\* it cancels the orders of the process's own list, which run never fills
CloseAllLimitOrders(ok, r) ==
    /\ faults' = faults
    /\ active_close_orders' = active_close_orders
    /\ restingOrders' = restingOrders

\* close_all_orders against the venue: the query (ok), the cancel calls
\* (answers r), the orders left on the venue
CloseAllOrders(ok, r) ==
    /\ faults + (IF ok THEN 0 ELSE 1) <= MaxFaults
    /\ faults' = faults + (IF ok THEN 0 ELSE 1)
                 + FailedCancels(Len(get_active_orders(restingOrders, ok)), r)
    /\ active_close_orders' = CloseOrderDicts(get_active_orders(restingOrders, ok))
    /\ restingOrders' = OrdersOf(CloseAllResting(restingOrders, ok, r))

CancelBudget(ok) == MaxFaults - faults - (IF ok THEN 0 ELSE 1)

\* an iteration going from close_all_orders straight to the batch placements
MMCloseAllThenSubmit ==
    /\ mpc = "iter_start"
    /\ \E ok \in BOOLEAN :
        \E r \in CancelResponses(Len(get_active_orders(restingOrders, ok)),
                                 CancelBudget(ok)) :
            /\ CloseAllOrders(ok, r)
            /\ mmLog' = CloseAllLog(restingOrders, ok)
    /\ mmSides' = <<>>
    /\ mslept' = FALSE
    /\ mpc' = "submit"
    /\ UNCHANGED <<miter, config, markets, curr_contract_amount, mstarted,
                   mcancelled, last_log_time, bpVenue, hvars, fvars, clock>>

\* run line 119: close_all_orders at the start of an iteration
MMCloseAll ==
    /\ mpc = "iter_start"
    /\ \E ok \in BOOLEAN :
        \E r \in CancelResponses(Len(get_active_orders(restingOrders, ok)),
                                 CancelBudget(ok)) :
            /\ CloseAllOrders(ok, r)
            /\ mmLog' = CloseAllLog(restingOrders, ok)
    /\ mmSides' = <<>>
    /\ mslept' = FALSE
    /\ mpc' = "fetch_position"
    /\ UNCHANGED <<miter, config, markets, curr_contract_amount, mstarted,
                   mcancelled, last_log_time, bpVenue, hvars, fvars, clock>>

\* run lines 121-130: the position fetch (an empty list when the venue call
\* raises), the position rate, the status check
MMFetchPosition ==
    /\ mpc = "fetch_position"
    /\ \E ok \in BOOLEAN, okS \in BOOLEAN :
        LET now == clock[miter]
            cost == (IF ok THEN 0 ELSE 1) + (IF okS THEN 0 ELSE 1)
            amount == ContractAmount(IF ok THEN bpVenue ELSE <<>>, config.contract_id)
        IN  /\ faults + cost <= MaxFaults
            /\ curr_contract_amount' = amount
            /\ IF PositionRateRaises(config.max_position_count)
               THEN /\ okS
                    /\ mpc' = "except"
                    /\ mmLog' = Append(mmLog, [call |-> "get_open_positions"])
                    /\ faults' = faults + (IF ok THEN 0 ELSE 1)
                    /\ UNCHANGED active_close_orders
               ELSE /\ mpc' = "submit"
                    /\ faults' = faults + cost
                    /\ IF StatusCheckDue(now, last_log_time)
                       THEN /\ mmLog' = Append(mmLog, [call |-> "get_open_positions"])
                                        \o StatusLog
                            /\ active_close_orders' =
                                   StatusCloseOrders(config,
                                                     get_active_orders(restingOrders, okS))
                       ELSE /\ okS
                            /\ mmLog' = Append(mmLog, [call |-> "get_open_positions"])
                            /\ UNCHANGED active_close_orders
    /\ UNCHANGED <<miter, config, markets, restingOrders, mmSides, mstarted,
                   mcancelled, mslept, last_log_time, bpVenue, hvars, fvars, clock>>

\* the side of the next batch placement of this iteration
NextSide == SidesFor(curr_contract_amount, config.max_position_count)[Len(mmSides) + 1]

\* the per-iteration handler of line 169 missing: the exception reaches line 171
AfterBatchUnguarded(raises) ==
    IF raises THEN "fatal"
    ELSE IF Len(mmSides) + 1 >= Len(SidesFor(curr_contract_amount,
                                             config.max_position_count))
         THEN "sleep"
    ELSE "submit"

\* where run goes after a batch placement
AfterBatch(raises) ==
    IF raises THEN "except"
    ELSE IF Len(mmSides) + 1 >= Len(SidesFor(curr_contract_amount,
                                             config.max_position_count))
         THEN "sleep"
    ELSE "submit"

\* run lines 132-166: one batch_place_buy_limit_orders or
\* batch_place_sell_limit_orders call
MMPlaceBatch ==
    /\ mpc = "submit"
    /\ \E depth \in DepthAnswers :
        LET cost == IF AlignFloorRaises(config.quantity, config.min_quantity)
                    THEN 0 ELSE DepthFault(depth)
        IN  /\ faults + cost <= MaxFaults
            /\ \E answers \in BatchAnswers(BatchLevels(config, depth),
                                           MaxFaults - faults - cost) :
                /\ faults' = faults + cost
                             + FailedAnswers(BatchLevels(config, depth), answers)
                /\ restingOrders' =
                       restingOrders
                       \o OrdersOf(BatchPlaced(NextSide, config, depth, miter, answers))
                /\ mmLog' = mmLog \o BatchLog(NextSide, config, depth, miter, answers)
                /\ mpc' = AfterBatch(BatchRaises(config, depth))
    /\ mmSides' = Append(mmSides, NextSide)
    /\ UNCHANGED <<miter, config, markets, curr_contract_amount, mstarted, mcancelled,
                   mslept, active_close_orders, last_log_time, bpVenue, hvars, fvars, clock>>

\* run line 168: asyncio.sleep(wait_time) returns and the loop starts over
MMSleep ==
    /\ mpc = "sleep"
    /\ miter < MaxIter
    /\ mpc' = "iter_start"
    /\ miter' = miter + 1
    /\ mslept' = TRUE
    /\ UNCHANGED <<config, markets, restingOrders, curr_contract_amount, mmSides, mmLog,
                   mstarted, mcancelled, active_close_orders, last_log_time, faults,
                   bpVenue, hvars, fvars, clock>>

\* the handler of lines 169-170 also ending the hedging task
MMExceptStopsHedger ==
    /\ mpc = "except"
    /\ miter < MaxIter
    /\ mpc' = "iter_start"
    /\ miter' = miter + 1
    /\ hpc' = "cancelled"
    /\ UNCHANGED <<config, markets, restingOrders, curr_contract_amount, mmSides, mmLog,
                   mstarted, mcancelled, mslept, active_close_orders, last_log_time,
                   faults, bpVenue, fvars, clock>>
    /\ UNCHANGED <<hcycle, lgVenue, order_book_df, backpack_positions,
                   lighter_positions, need_hedge_positions, hi, hedgeLog, hslept>>

\* run lines 169-170: the handler logs and the loop starts over
MMExcept ==
    /\ mpc = "except"
    /\ miter < MaxIter
    /\ mpc' = "iter_start"
    /\ miter' = miter + 1
    /\ UNCHANGED <<config, markets, restingOrders, curr_contract_amount, mmSides, mmLog,
                   mstarted, mcancelled, mslept, active_close_orders, last_log_time,
                   faults, bpVenue, hvars, fvars, clock>>

\* the task is cancelled from outside while it sleeps: CancelledError is no
\* Exception, so only the finally clause runs
MMCancelTask ==
    /\ mpc = "sleep"
    /\ mpc' = "finally"
    /\ mcancelled' = TRUE
    /\ UNCHANGED <<miter, config, markets, restingOrders, curr_contract_amount, mmSides,
                   mmLog, mstarted, mslept, active_close_orders, last_log_time, faults,
                   bpVenue, hvars, fvars, clock>>

\* run lines 171-174: the handler of a startup error calls close_all_orders
MMFatalClose ==
    /\ mpc = "fatal"
    /\ \E ok \in BOOLEAN :
        \E r \in CancelResponses(Len(get_active_orders(restingOrders, ok)),
                                 CancelBudget(ok)) :
            /\ CloseAllOrders(ok, r)
            /\ mmLog' = mmLog \o CloseAllLog(restingOrders, ok)
    /\ mpc' = "finally"
    /\ UNCHANGED <<miter, config, markets, curr_contract_amount, mmSides, mstarted,
                   mcancelled, mslept, last_log_time, bpVenue, hvars, fvars, clock>>

\* run ending without the finally clause of lines 175-179
MMFinallyReturns ==
    /\ mpc = "finally"
    /\ mpc' = "done"
    /\ UNCHANGED <<miter, config, markets, restingOrders, curr_contract_amount, mmSides,
                   mmLog, mstarted, mcancelled, mslept, active_close_orders,
                   last_log_time, faults, bpVenue, hvars, fvars, clock>>

\* run lines 175-179: the finally clause calls close_all_orders and run ends
MMFinallyClose ==
    /\ mpc = "finally"
    /\ \E ok \in BOOLEAN :
        \E r \in CancelResponses(Len(get_active_orders(restingOrders, ok)),
                                 CancelBudget(ok)) :
            /\ CloseAllOrders(ok, r)
            /\ mmLog' = mmLog \o CloseAllLog(restingOrders, ok)
    /\ mpc' = "done"
    /\ UNCHANGED <<miter, config, markets, curr_contract_amount, mmSides, mstarted,
                   mcancelled, mslept, last_log_time, bpVenue, hvars, fvars, clock>>

MMNext ==
    \/ MMStartup
    \/ MMCloseAll
    \/ MMFetchPosition
    \/ MMPlaceBatch
    \/ MMSleep
    \/ MMExcept
    \/ MMCancelTask
    \/ MMFatalClose
    \/ MMFinallyClose

---------------------------------------------------------------------------
(* The two programs.  market_maker.py and king_of_hedge.py are separate    *)
(* scripts: a run of the system is a run of one of them, the other's       *)
(* variables staying idle.                                                 *)

HedgeIdle ==
    /\ hpc = "idle"
    /\ hcycle = 0
    /\ lgVenue = <<>>
    /\ order_book_df = <<>>
    /\ backpack_positions = <<>>
    /\ lighter_positions = <<>>
    /\ need_hedge_positions = <<>>
    /\ hi = 1
    /\ hedgeLog = <<>>
    /\ hslept = FALSE

MMIdle ==
    /\ mpc = "idle"
    /\ miter = 0
    /\ config = MainConfig(1)
    /\ markets = <<>>
    /\ restingOrders = <<>>
    /\ curr_contract_amount = 0
    /\ mmSides = <<>>
    /\ mmLog = <<>>
    /\ mstarted = FALSE
    /\ mcancelled = FALSE
    /\ mslept = FALSE
    /\ active_close_orders = <<>>
    /\ last_log_time = 0
    /\ faults = 0

FnIdle == fnCall = [name |-> "none"] /\ fnResult = [done |-> FALSE]

HedgeInit ==
    bpVenue \in BpVenueLists /\ HedgeStart /\ MMIdle /\ FnIdle /\ clock = MainClock

MMInit == MMStart /\ HedgeIdle /\ FnIdle /\ clock = MainClock

Init == HedgeInit \/ MMInit

Next == HedgeNext \/ MMNext

Spec == Init /\ [][Next]_vars

\* king_of_hedge.py alone
HedgeSpec == HedgeInit /\ [][HedgeNext]_vars

\* market_maker.py alone
MMSpec == MMInit /\ [][MMNext]_vars

\* both scripts running at once against the same primary venue, their
\* steps interleaved in every order: the market maker quoting one level per
\* side with no position on the primary venue, the hedger finding a short
\* position on the secondary venue
BothInit ==
    /\ HedgeStart
    /\ MMStart
    /\ FnIdle
    /\ config = MainConfig(1)
    /\ markets = RegularMarkets
    /\ restingOrders = <<>>
    /\ bpVenue = <<>>
    /\ lgVenue = <<MovedEntry(ETH, -1000)>>
    /\ clock = MainClock

BothSpec == BothInit /\ [][Next]_vars

\* market_maker.py alone, its iterations following each other at every pace
StatusInit == MMStart /\ HedgeIdle /\ FnIdle /\ clock \in Clocks(MaxIter)

StatusSpec == StatusInit /\ [][MMNext]_vars

---------------------------------------------------------------------------
(* The pure helpers: the arguments are drawn at the start, one step        *)
(* applies the helper.                                                     *)

\* prices, in units of 10^-3
FnPrices ==
    {-1005, -15, 0, 5, 994, 995, 1000, 1004, 1005, 1130, 1250, 1500, 99994,
     100005, 100125, 100130, 100250, 100375, 100500, 101000}

\* tick sizes above zero: 0.001, 0.01, 0.1, 0.25, 0.5, 1
FnTicks ==
    {[c |-> 1, e |-> -3], [c |-> 1, e |-> -2], [c |-> 1, e |-> -1],
     [c |-> 25, e |-> -2], [c |-> 5, e |-> -1], [c |-> 1, e |-> 0]}

\* quantities and lot sizes above zero, in units of 10^-5
FnQuantities == {-1000, -340, -100, -1, 0, 1, 99, 100, 299, 340, 1000, 1001, 2500}

FnLots == {1, 100, 250, 300, 1000}

\* symbols handed to get_unified_symbol
FnSymbols ==
    {ETH, ETH_USDC_PERP, ETH_USDT_PERP, SOL_USDC_PERP,
     <<"E", "T", "H", "U", "S", "D", "T">>,
     <<"E", "T", "H", "U", "S", "D", "C">>,
     <<"E", "T", "H", "U", "S", "D">>,
     <<"e", "t", "h", "_", "u", "s", "d", "c">>,
     <<"U", "S", "D", "T", "U", "S", "D">>,
     <<"U", "S", "D", "U", "S", "D", "T", "_", "P", "E", "R", "P">>}

FnPlatforms == {"backpack", "edgex", "lighter"}

\* config.quantity of the client whose cancel_order is called
FnOrderQuantities == {100, 1000}

FnCalls ==
    {[name |-> "round_to_tick", price |-> p, tick |-> t] : p \in FnPrices, t \in FnTicks}
    \cup {[name |-> "align_floor", quantity |-> q, min_quantity |-> l] :
            q \in FnQuantities, l \in FnLots}
    \cup {[name |-> "get_unified_symbol", symbol |-> sym, platform |-> pf] :
            sym \in FnSymbols, pf \in FnPlatforms}
    \cup {[name |-> "cancel_order", answer |-> a, quantity |-> q] :
            a \in CancelAnswers, q \in FnOrderQuantities}

FnInit ==
    /\ fnCall \in FnCalls
    /\ fnResult = [done |-> FALSE]
    /\ bpVenue = <<>>
    /\ HedgeIdle
    /\ MMIdle
    /\ clock = MainClock

ApplyRoundToTick ==
    /\ fnCall.name = "round_to_tick"
    /\ ~fnResult.done
    /\ fnResult' = [done |-> TRUE, value |-> round_to_tick(fnCall.price, fnCall.tick)]
    /\ UNCHANGED <<fnCall, bpVenue, hvars, mvars, clock>>

ApplyAlignFloor ==
    /\ fnCall.name = "align_floor"
    /\ ~fnResult.done
    /\ fnResult' = [done |-> TRUE,
                    value |-> align_floor(fnCall.quantity, fnCall.min_quantity)]
    /\ UNCHANGED <<fnCall, bpVenue, hvars, mvars, clock>>

ApplyUnifiedSymbol ==
    /\ fnCall.name = "get_unified_symbol"
    /\ ~fnResult.done
    /\ fnResult' = [done |-> TRUE,
                    value |-> get_unified_symbol(fnCall.symbol, fnCall.platform)]
    /\ UNCHANGED <<fnCall, bpVenue, hvars, mvars, clock>>

ApplyCancelOrder ==
    /\ fnCall.name = "cancel_order"
    /\ ~fnResult.done
    /\ fnResult' = [done |-> TRUE,
                    value |-> cancel_order(fnCall.answer, fnCall.quantity)]
    /\ UNCHANGED <<fnCall, bpVenue, hvars, mvars, clock>>

FnNext ==
    \/ ApplyRoundToTick
    \/ ApplyAlignFloor
    \/ ApplyUnifiedSymbol
    \/ ApplyCancelOrder

FnSpec == FnInit /\ [][FnNext]_vars

---------------------------------------------------------------------------
(* Claims about the hedging loop. *)

PrimaryEntriesOf(k) ==
    {i \in 1..Len(backpack_positions) :
        get_unified_symbol(backpack_positions[i].symbol, "backpack") = k}

SecondaryEntriesOf(k) ==
    {j \in 1..Len(lighter_positions) :
        get_unified_symbol(lighter_positions[j].symbol, "lighter") = k}

\* the keys of the primary entries and of the non-zero secondary entries
HedgeKeys ==
    {get_unified_symbol(backpack_positions[i].symbol, "backpack") :
        i \in 1..Len(backpack_positions)}
    \cup {get_unified_symbol(lighter_positions[j].symbol, "lighter") :
            j \in {n \in 1..Len(lighter_positions) : SignedOf(lighter_positions[n]) # 0}}

\* the quantities of the primary entries of key k; 0 when there is none
PrimaryQuantitiesOf(k) ==
    IF PrimaryEntriesOf(k) = {} THEN {0}
    ELSE {backpack_positions[i].netQuantity : i \in PrimaryEntriesOf(k)}

PrimaryQuantityOf(k) ==
    IF PrimaryEntriesOf(k) = {} THEN 0
    ELSE backpack_positions[FirstOf(PrimaryEntriesOf(k))].netQuantity

SecondaryQuantityOf(k) ==
    IF SecondaryEntriesOf(k) = {} THEN 0
    ELSE SignedOf(lighter_positions[FirstOf(SecondaryEntriesOf(k))])

InstructionsOf(k) ==
    {n \in 1..Len(need_hedge_positions) : need_hedge_positions[n].symbol = k}

\* C1: for every canonical key that has an entry on the primary venue or a
\* non-zero entry on the secondary venue, the instruction list of the cycle
\* holds an instruction for the key, and every instruction for the key has
\* the quantity -(primary quantity) - (secondary quantity), a venue without
\* an entry contributing 0; a key held only on the secondary venue gets
\* -(secondary quantity).  Every primary entry of the key has its
\* instruction.
C1_HedgeDelta ==
    \A k \in HedgeKeys :
        /\ InstructionsOf(k) # {}
        /\ \A n \in InstructionsOf(k) :
              \E q \in PrimaryQuantitiesOf(k) :
                  need_hedge_positions[n].quantity = (-q) - SecondaryQuantityOf(k)
        /\ \A q \in PrimaryQuantitiesOf(k) :
              \E n \in InstructionsOf(k) :
                  need_hedge_positions[n].quantity = (-q) - SecondaryQuantityOf(k)

\* a cycle with a key matched on both venues (both non-zero) and a key held
\* only on the secondary venue
C1_Witness ==
    /\ hpc = "do_hedges"
    /\ \E k \in HedgeKeys :
        /\ Cardinality(PrimaryEntriesOf(k)) = 1
        /\ Cardinality(SecondaryEntriesOf(k)) = 1
        /\ PrimaryQuantityOf(k) # 0
        /\ SecondaryQuantityOf(k) # 0
    /\ \E k \in HedgeKeys :
        /\ PrimaryEntriesOf(k) = {}
        /\ \E n \in InstructionsOf(k) :
              need_hedge_positions[n].quantity = -SecondaryQuantityOf(k)

\* C2: in one cycle no two hedge instructions carry the same canonical key.
C2_OneInstructionPerKey ==
    \A m, n \in 1..Len(need_hedge_positions) :
        m # n => need_hedge_positions[m].symbol # need_hedge_positions[n].symbol

\* the orders do_hedges handed to the secondary venue in this cycle
SentHedgeOrders ==
    {n \in 1..Len(hedgeLog) : hedgeLog[n].outcome \in {"filled", "raise"}}

\* C3: the base amount of every market order sent to the secondary venue is
\* at most the absolute value of the delta it was computed from.
C3_OrderWithinDelta ==
    \A n \in SentHedgeOrders :
        hedgeLog[n].base_amount * LotUnits(hedgeLog[n].market_index)
            <= Abs(hedgeLog[n].quantity)

---------------------------------------------------------------------------
(* Claims about the market-making loop. *)

Quoted(side) == \E n \in 1..Len(mmSides) : mmSides[n] = side

\* the skew rule as the claim states it, for the position and the cap of
\* this iteration
SkewRuleHolds ==
    /\ (Quoted("Bid") /\ Quoted("Ask"))
           <=> Abs(curr_contract_amount) < config.max_position_count
    /\ (Quoted("Ask") /\ ~Quoted("Bid"))
           <=> curr_contract_amount >= config.max_position_count
    /\ (Quoted("Bid") /\ ~Quoted("Ask"))
           <=> curr_contract_amount <= -config.max_position_count
    /\ mmSides # <<>>
    /\ \A m, n \in 1..Len(mmSides) : m # n => mmSides[m] # mmSides[n]

C5_NoEarlierOrderAtSubmission ==
    mpc \in {"submit", "sleep"} =>
        /\ \A n \in 1..Len(restingOrders) : restingOrders[n].id[1] = miter
        /\ Len(restingOrders) <= 2 * config.max_orders

\* C6: in both loops the handler of an iteration's exception starts the next
\* iteration, and once startup has succeeded the loop is left only by
\* cancellation from outside.
C6_ExceptionNeverEndsLoop ==
    [][/\ mpc = "except" => mpc' = "iter_start"
       /\ hpc = "except" => hpc' = "iter_start"
       /\ (mstarted' /\ mpc' \in {"fatal", "finally", "done"}) => mcancelled'
       /\ (hpc' # hpc /\ hpc' \notin {"iter_start", "do_hedges", "sleep", "except"})
              => (hpc' = "cancelled" /\ hpc \in {"do_hedges", "sleep"})]_vars

\* the market maker started an iteration after the handler of line 169 ran
C6_Witness ==
    /\ mstarted
    /\ mpc = "iter_start"
    /\ miter > 1
    /\ ~mslept

\* C7: in both loops an iteration after the first starts only after the
\* sleep ran since the previous iteration ended.
C7_SleepBeforeNextIteration ==
    /\ (mpc = "iter_start" /\ miter > 1) => mslept
    /\ (hpc = "iter_start" /\ hcycle > 1) => hslept

\* the venue's answer makes the claim demand a startup failure
NoMarketForTicker ==
    ~\E n \in 1..Len(markets) :
        /\ markets[n].marketType = "PERP"
        /\ markets[n].baseSymbol = config.ticker
        /\ markets[n].quoteSymbol = USDC

MatchedMarket ==
    markets[CHOOSE n \in 1..Len(markets) :
                /\ markets[n].marketType = "PERP"
                /\ markets[n].baseSymbol = config.ticker
                /\ markets[n].quoteSymbol = USDC
                /\ \A k \in 1..(n - 1) :
                      ~(/\ markets[k].marketType = "PERP"
                        /\ markets[k].baseSymbol = config.ticker
                        /\ markets[k].quoteSymbol = USDC)]

StartupMustFail ==
    \/ NoMarketForTicker
    \/ TickValue(MatchedMarket.tickSize) = 0
    \/ config.quantity < MatchedMarket.minQuantity

LimitOrderSubmitted ==
    \E n \in 1..Len(mmLog) : mmLog[n].call = "execute_order"

\* C8: when no market matches the ticker, the tick size is zero or the order
\* quantity is below the venue minimum, get_contract_attributes fails, the
\* loop is not entered and no limit order is placed.
C8_StartupFailure ==
    (mpc \notin {"idle", "startup"} /\ StartupMustFail) =>
        /\ ~mstarted
        /\ mpc \in {"fatal", "finally", "done"}
        /\ ~LimitOrderSubmitted
        /\ restingOrders = <<>>

\* run ended after a startup that failed on a zero tick size
C8_Witness ==
    /\ mpc = "done"
    /\ ~mstarted
    /\ ~NoMarketForTicker
    /\ TickValue(MatchedMarket.tickSize) = 0

\* C9: every ladder order is submitted with tick_size > 0 and
\* min_quantity > 0, and a venue that reports a tick size or a minimum
\* quantity of zero or below makes startup fail.
C9_PositiveTickAndLot ==
    /\ \A n \in 1..Len(mmLog) :
          mmLog[n].call = "execute_order" =>
              (TickValue(config.tick_size) > 0 /\ config.min_quantity > 0)
    /\ (/\ mpc \notin {"idle", "startup"}
        /\ ~NoMarketForTicker
        /\ (TickValue(MatchedMarket.tickSize) <= 0 \/ MatchedMarket.minQuantity <= 0))
           => ~mstarted

---------------------------------------------------------------------------
(* Claims about the pure helpers. *)

\* C10: for every tick size above zero and every price, round_to_tick
\* returns an exact integer multiple of the tick size.
C10_MultipleOfTick ==
    (fnCall.name = "round_to_tick" /\ fnResult.done) =>
        fnResult.value % TickValue(fnCall.tick) = 0

RoundToTickApplied == fnCall.name = "round_to_tick" /\ fnResult.done

\* the multiple of the tick size at or below the price
LowerMultiple == (fnCall.price \div TickValue(fnCall.tick)) * TickValue(fnCall.tick)

\* the price lies exactly halfway between two neighbouring multiples of the
\* tick size
HalfwayPrice == 2 * (fnCall.price - LowerMultiple) = TickValue(fnCall.tick)

\* of the two multiples around a halfway price, the one of larger magnitude
LargerNeighbour ==
    IF fnCall.price >= 0 THEN LowerMultiple + TickValue(fnCall.tick) ELSE LowerMultiple

\* C11: for every tick size above zero and every price, the result of
\* round_to_tick differs from the price by at most half a tick, and a price
\* exactly halfway between two neighbouring multiples of the tick goes to the
\* one of larger magnitude (round_to_tick(100.125) = 100.25 for tick 0.25).
C11_NearestHalfUp ==
    RoundToTickApplied =>
        /\ 2 * Abs(fnResult.value - fnCall.price) <= TickValue(fnCall.tick)
        /\ HalfwayPrice => fnResult.value = LargerNeighbour

AlignFloorApplied == fnCall.name = "align_floor" /\ fnResult.done

\* C12: for every lot size above zero and every quantity, align_floor
\* returns an integer multiple of the lot size of the quantity's sign, no
\* larger in magnitude than the quantity and less than one lot away from it;
\* align_floor(0.0034, 0.001) = 0.003.
C12_AlignFloorTruncates ==
    AlignFloorApplied =>
        /\ fnResult.value % fnCall.min_quantity = 0
        /\ Abs(fnResult.value) <= Abs(fnCall.quantity)
        /\ Abs(fnCall.quantity) - Abs(fnResult.value) < fnCall.min_quantity
        /\ fnResult.value * fnCall.quantity >= 0
        /\ fnCall.quantity >= 0 => fnResult.value <= fnCall.quantity
        /\ (fnCall.quantity = 340 /\ fnCall.min_quantity = 100) => fnResult.value = 300

\* a negative quantity off the lot grid, truncated toward zero
C12_Witness ==
    /\ AlignFloorApplied
    /\ fnCall.quantity = -340
    /\ fnCall.min_quantity = 100
    /\ fnResult.value = -300

\* the symbols of the asset ETH among the drawn symbols
EthSymbols == {sym \in FnSymbols : SubSeq(Upper(sym), 1, Len(ETH)) = ETH}

\* C20: for every venue name, get_unified_symbol maps every symbol of the
\* asset ETH (ETHUSDT, ETH_USDT_PERP, ETHUSDC, ETH_USDC_PERP, ETHUSD, in
\* either case) to the key ETH.
C20_CanonicalKey ==
    (/\ fnCall.name = "get_unified_symbol"
     /\ fnResult.done
     /\ fnCall.symbol \in EthSymbols) => fnResult.value = ETH

\* C21: get_unified_symbol is idempotent for every venue and every symbol:
\* unifying its own result returns the result unchanged.
C21_Idempotent ==
    (fnCall.name = "get_unified_symbol" /\ fnResult.done) =>
        get_unified_symbol(fnResult.value, fnCall.platform) = fnResult.value

\* the part of C21 about a canonical key: ETH is returned unchanged
C21_CanonicalUnchanged ==
    (/\ fnCall.name = "get_unified_symbol"
     /\ fnResult.done
     /\ fnCall.symbol = ETH) => fnResult.value = ETH

---------------------------------------------------------------------------
(* Claims about cancel_order. *)

CancelOrderApplied == fnCall.name = "cancel_order" /\ fnResult.done

VenueCallFailed == fnCall.answer.kind \in {"raise", "empty"}

ErrorResponse == fnCall.answer.kind = "dict" /\ fnCall.answer.code

\* an answer cancel_order cannot read: no dict, or a dict without 'code'
\* whose executedQuantity is no decimal
UnreadableAnswer ==
    \/ fnCall.answer.kind = "text"
    \/ /\ fnCall.answer.kind = "dict"
       /\ ~fnCall.answer.code
       /\ fnCall.answer.executed = "invalid"

\* C31 as stated: cancel_order returns success = false exactly when the venue
\* call raises or returns an empty result, and an error response (a payload
\* with 'code') gives success = true with filled_size = config.quantity.
C31_FailsIffRaiseOrEmpty ==
    CancelOrderApplied =>
        /\ ~fnResult.value.success <=> VenueCallFailed
        /\ ErrorResponse =>
              fnResult.value.success /\ fnResult.value.filled_size = fnCall.quantity

\* C31: cancel_order returns success = false exactly when the venue call
\* raises, returns an empty result, or returns an answer it cannot read (no
\* dict, or a dict without 'code' whose executedQuantity is no decimal); an
\* error response (a dict with 'code') gives success = true with filled_size
\* equal to the configured quantity, whatever else it holds, so the success
\* flag is the same as for a cancel the venue accepted, whose filled_size is
\* the executed quantity of the answer (zero when absent).
C31_FailsIffNoReadableAnswer ==
    CancelOrderApplied =>
        /\ ~fnResult.value.success <=> (VenueCallFailed \/ UnreadableAnswer)
        /\ ErrorResponse =>
              fnResult.value.success /\ fnResult.value.filled_size = fnCall.quantity
        /\ (fnResult.value.success /\ ~ErrorResponse) =>
              fnResult.value.filled_size = ExecutedQuantity(fnCall.answer)
        /\ ErrorResponse =>
              fnResult.value.success
                  = cancel_order([fnCall.answer EXCEPT !.code = FALSE,
                                                       !.executed = "decimal"],
                                 fnCall.quantity).success

\* a rejected cancel reported as a success with the configured quantity,
\* which is not the executed quantity of the answer
C31_Witness ==
    /\ CancelOrderApplied
    /\ ErrorResponse
    /\ fnResult.value.success
    /\ fnResult.value.filled_size = fnCall.quantity
    /\ fnCall.answer.executed = "decimal"
    /\ fnCall.answer.value # fnCall.quantity

---------------------------------------------------------------------------
(* Claims about the ladder. *)

SeqMax(seq) == CHOOSE x \in Range(seq) : \A y \in Range(seq) : y <= x

SeqMin(seq) == CHOOSE x \in Range(seq) : \A y \in Range(seq) : x <= y

\* the price of level i as the claim states it: spacing m x (A - B), bids
\* below the deepest visible bid D, asks above the best ask A
ClaimedLevelPrice(side, book, m, i) ==
    IF side = "Bid"
    THEN SeqMin(book.bids) - m * (SeqMin(book.asks) - SeqMax(book.bids)) * i
    ELSE SeqMin(book.asks) + m * (SeqMin(book.asks) - SeqMax(book.bids)) * i

\* the book the batch of this side fetched in this iteration
FetchedBook(side) ==
    mmLog[CHOOSE k \in 1..Len(mmLog) :
              mmLog[k].call = "get_depth" /\ mmLog[k].side = side].book

\* C13: every ladder order of level i is submitted at
\* quantize(D - m x (A - B) x i) on the bid side and at
\* quantize(A + m x (A - B) x i) on the ask side, for the book fetched by its
\* batch (B = 100, A = 101, D = 98, m = 2 gives a bid at 96 and an ask at 103).
C13_LadderPrices ==
    \A n \in 1..Len(mmLog) :
        mmLog[n].call = "execute_order" =>
            mmLog[n].price =
                round_to_tick(ClaimedLevelPrice(mmLog[n].side, FetchedBook(mmLog[n].side),
                                                config.base_multiple, mmLog[n].level),
                              config.tick_size)

---------------------------------------------------------------------------
(* Claims about do_hedges and the position fetches. *)

\* do_hedges called the secondary client for instruction n of the cycle
OrderAttempted(n) == hedgeLog[n].outcome # "skipped"

\* C14: do_hedges attempts an order for an instruction iff the absolute
\* value of its delta is strictly above 0.001; a delta of exactly 0.001 or
\* below causes no order.
C14_StrictThreshold ==
    \A n \in 1..Len(hedgeLog) :
        OrderAttempted(n) <=> Abs(hedgeLog[n].quantity) > HedgeThreshold

\* C15: a positive delta is sent as a buy (is_ask false), a negative delta as
\* a sell (is_ask true), and the size sent is the absolute delta in lots of
\* the market (cut to the market's size decimals).
C15_DirectionAndSize ==
    \A n \in SentHedgeOrders :
        /\ hedgeLog[n].quantity > 0 => hedgeLog[n].side = "buy"
        /\ hedgeLog[n].quantity < 0 => hedgeLog[n].side = "sell"
        /\ hedgeLog[n].base_amount =
               Abs(hedgeLog[n].quantity) \div LotUnits(hedgeLog[n].market_index)

\* the direction part of C15 alone: the sign of the delta selects the side
C15_DirectionBySign ==
    \A n \in 1..Len(hedgeLog) :
        OrderAttempted(n) =>
            /\ hedgeLog[n].quantity > 0 => hedgeLog[n].side = "buy"
            /\ hedgeLog[n].quantity < 0 => hedgeLog[n].side = "sell"

\* C16: when do_hedges has returned, every instruction of the cycle was
\* handled exactly once, in order, and every instruction above the threshold
\* had its submission attempt, whatever happened to the other submissions.
C16_EveryInstructionAttempted ==
    hpc = "sleep" =>
        /\ Len(hedgeLog) = Len(need_hedge_positions)
        /\ \A n \in 1..Len(hedgeLog) :
              /\ hedgeLog[n].index = n
              /\ hedgeLog[n].symbol = need_hedge_positions[n].symbol
              /\ Abs(need_hedge_positions[n].quantity) > HedgeThreshold
                     => OrderAttempted(n)

\* a cycle in which a submission failed and a later instruction was filled
C16_Witness ==
    /\ hpc = "sleep"
    /\ \E m, n \in 1..Len(hedgeLog) :
          /\ m < n
          /\ hedgeLog[m].outcome \in {"raise", "invalid"}
          /\ hedgeLog[n].outcome = "filled"

\* get_need_hedge_positions has just returned
NeedJustComputed == hpc = "do_hedges" /\ hi = 1

\* a fetch returned the empty list although the venue holds positions
PrimaryFetchFailed == backpack_positions = <<>> /\ bpVenue # <<>>

SecondaryFetchFailed == lighter_positions = <<>> /\ lgVenue # <<>>

NonZeroSecondary == SelectSeq(lighter_positions, LAMBDA e : SignedOf(e) # 0)

\* C19: a position fetch that failed on one venue leaves the cycle running
\* with that venue's list empty: after a failed primary fetch the
\* instructions are -(secondary quantity) for every non-zero secondary
\* position, after a failed secondary fetch -(primary quantity) for every
\* primary position.
C19_FetchFailureIsEmptyList ==
    NeedJustComputed =>
        /\ PrimaryFetchFailed =>
              /\ Len(need_hedge_positions) = Len(NonZeroSecondary)
              /\ \A n \in 1..Len(NonZeroSecondary) :
                    need_hedge_positions[n] =
                        [symbol |-> NonZeroSecondary[n].symbol,
                         quantity |-> -SignedOf(NonZeroSecondary[n])]
        /\ SecondaryFetchFailed =>
              /\ Len(need_hedge_positions) = Len(backpack_positions)
              /\ \A n \in 1..Len(backpack_positions) :
                    need_hedge_positions[n] =
                        [symbol |-> get_unified_symbol(backpack_positions[n].symbol,
                                                       "backpack"),
                         quantity |-> -backpack_positions[n].netQuantity]

\* the primary fetch failed and the secondary positions were still processed
C19_Witness ==
    /\ NeedJustComputed
    /\ PrimaryFetchFailed
    /\ NonZeroSecondary # <<>>
    /\ Len(need_hedge_positions) = Len(NonZeroSecondary)

\* the keys of all fetched entries, zero or not
ReportedKeys ==
    {get_unified_symbol(backpack_positions[i].symbol, "backpack") :
        i \in 1..Len(backpack_positions)}
    \cup {get_unified_symbol(lighter_positions[j].symbol, "lighter") :
            j \in 1..Len(lighter_positions)}

\* every entry fetched for key k, on either venue, reports exactly zero
ZeroOnBothVenues(k) ==
    /\ \A i \in PrimaryEntriesOf(k) : backpack_positions[i].netQuantity = 0
    /\ \A j \in SecondaryEntriesOf(k) : SignedOf(lighter_positions[j]) = 0

\* C25: the instruction list returned by get_need_hedge_positions holds no
\* entry for an asset whose reported quantity is exactly zero on both venues.
C25_ZeroEntriesSkipped ==
    NeedJustComputed =>
        \A k \in ReportedKeys : ZeroOnBothVenues(k) => InstructionsOf(k) = {}

\* the part of C25 the second loop keeps: a zero entry of the secondary venue
\* without a primary entry of its key gets no instruction
C25_ZeroSecondarySkipped ==
    NeedJustComputed =>
        \A k \in ReportedKeys :
            (ZeroOnBothVenues(k) /\ PrimaryEntriesOf(k) = {}) => InstructionsOf(k) = {}

---------------------------------------------------------------------------
(* Claims about the convergence of the hedge. *)

\* the net quantity the primary venue holds for key k, over its first n entries
RECURSIVE PrimaryExposure(_, _)
PrimaryExposure(k, n) ==
    IF n = 0 THEN 0
    ELSE PrimaryExposure(k, n - 1)
         + (IF get_unified_symbol(bpVenue[n].symbol, "backpack") = k
            THEN bpVenue[n].netQuantity ELSE 0)

\* the signed position the secondary venue holds for key k, over its first n
\* entries
RECURSIVE SecondaryExposure(_, _)
SecondaryExposure(k, n) ==
    IF n = 0 THEN 0
    ELSE SecondaryExposure(k, n - 1)
         + (IF get_unified_symbol(lgVenue[n].symbol, "lighter") = k
            THEN SignedOf(lgVenue[n]) ELSE 0)

CombinedExposure(k) ==
    PrimaryExposure(k, Len(bpVenue)) + SecondaryExposure(k, Len(lgVenue))

VenueKeys ==
    {get_unified_symbol(bpVenue[i].symbol, "backpack") : i \in 1..Len(bpVenue)}
    \cup {get_unified_symbol(lgVenue[j].symbol, "lighter") : j \in 1..Len(lgVenue)}

\* a hedging iteration has ended and every venue call of it succeeded: both
\* fetches returned the venue's list, every order asked for was filled
IterationSucceeded ==
    /\ hpc = "sleep"
    /\ backpack_positions = bpVenue
    /\ (lighter_positions # <<>> \/ lgVenue = <<>>)
    /\ Len(hedgeLog) = Len(need_hedge_positions)
    /\ \A n \in 1..Len(hedgeLog) : hedgeLog[n].outcome \in {"filled", "skipped"}

\* C28: after a hedging iteration in which every venue call succeeded (the
\* primary position unchanged, the market orders filled in full), the
\* combined exposure primary + secondary of every asset is below the
\* threshold of 0.001 in absolute value, so that a later iteration has no
\* order to submit.
C28_HedgeConverges ==
    IterationSucceeded =>
        \A k \in VenueKeys : Abs(CombinedExposure(k)) < HedgeThreshold

\* the hedge swinging: the second iteration, all calls succeeding, sold on
\* the secondary venue what the first had bought too much
C28_Oscillation ==
    ~(/\ IterationSucceeded
      /\ hcycle > 1
      /\ \E n \in 1..Len(hedgeLog) :
            /\ hedgeLog[n].outcome = "filled"
            /\ hedgeLog[n].side = "sell"
            /\ hedgeLog[n].base_amount * LotUnits(hedgeLog[n].market_index)
                   > Abs(hedgeLog[n].quantity)
      /\ \A i \in 1..Len(bpVenue) : bpVenue[i].netQuantity < 0)

---------------------------------------------------------------------------
(* Claims about the end and the restart of the market maker. *)

\* position n of the log is a close_all_orders call with no ladder
\* submission after it
CancelAllAfterLastSubmission(n) ==
    /\ mmLog[n].call = "get_open_orders"
    /\ \A k \in (n + 1)..Len(mmLog) : mmLog[k].call # "execute_order"

\* C17: when run has returned (after a startup error or after the
\* cancellation of the task), close_all_orders was called at least once
\* after the last ladder submission.
C17_CancelAllBeforeReturn ==
    mpc = "done" => \E n \in 1..Len(mmLog) : CancelAllAfterLastSubmission(n)

\* a cancelled run that had submitted a ladder and closed its orders after it
C17_Witness ==
    /\ mpc = "done"
    /\ mcancelled
    /\ \E k \in 1..Len(mmLog) :
          /\ mmLog[k].call = "execute_order"
          /\ \E n \in (k + 1)..Len(mmLog) : CancelAllAfterLastSubmission(n)

\* the first iteration of the process ran to its sleep and no venue call of
\* the process has failed
FirstIterationComplete == mpc = "sleep" /\ miter = 1 /\ faults = 0

\* the ladder orders submitted in this iteration, in log order
SubmittedLadder ==
    SelectSeq(mmLog, LAMBDA e : e.call = "execute_order")

\* C18: after the first complete iteration of a restarted process, with
\* every venue call succeeding, the orders resting on the venue are exactly
\* the ladder of that iteration: no order of the crashed process is left.
C18_RestartConverges ==
    FirstIterationComplete =>
        /\ \A n \in 1..Len(restingOrders) : restingOrders[n].id[1] = miter
        /\ Len(restingOrders) = Len(SubmittedLadder)
        /\ \A n \in 1..Len(restingOrders) :
              /\ restingOrders[n].side = SubmittedLadder[n].side
              /\ restingOrders[n].price = SubmittedLadder[n].price
              /\ restingOrders[n].quantity = SubmittedLadder[n].quantity
        /\ Len(restingOrders) = config.max_orders * Len(mmSides)

\* a restarted process that found two orders of the crashed one, cancelled
\* them and completed its first iteration
C18_Witness ==
    /\ FirstIterationComplete
    /\ restingOrders # <<>>
    /\ \E m, n \in 1..Len(mmLog) :
          /\ m # n
          /\ mmLog[m].call = "cancel_order" /\ mmLog[m].id[1] = 0
          /\ mmLog[n].call = "cancel_order" /\ mmLog[n].id[1] = 0

---------------------------------------------------------------------------
(* Claims about the order of the venue calls of an iteration. *)

\* an iteration of the loop is under way (close_all_orders has returned) or
\* has just ended
InIteration == mpc \in {"fetch_position", "submit", "sleep", "except"}

CallsOf(kind) == {n \in 1..Len(mmLog) : mmLog[n].call = kind}

\* the calls of the batch placements: the book fetch and the submissions
LadderCalls == CallsOf("get_depth") \cup CallsOf("execute_order")

\* C23: the venue calls of an iteration begin with the open-order query,
\* followed at once by the cancel calls, all of them before the position
\* fetch; every call of a batch placement comes after the position fetch, so
\* no ladder order is submitted before the cancel-all step and the position
\* fetch of its iteration have completed; the sleep is reached only after
\* the batch placements.
C23_CallOrder ==
    InIteration =>
        /\ mmLog # <<>>
        /\ mmLog[1].call = "get_open_orders"
        /\ \A n \in CallsOf("cancel_order") :
              /\ \A k \in 2..n : mmLog[k].call = "cancel_order"
              /\ \A f \in CallsOf("get_open_positions") : n < f
        /\ \A n \in LadderCalls :
              \E f \in CallsOf("get_open_positions") : f < n
        /\ \A n \in CallsOf("execute_order") :
              \A c \in CallsOf("cancel_order") : c < n
        /\ mpc \in {"submit", "sleep"} => CallsOf("get_open_positions") # {}
        /\ mpc = "sleep" =>
              mmSides = SidesFor(curr_contract_amount, config.max_position_count)

\* a second iteration that cancelled an order, fetched the position and
\* submitted both ladders before its sleep
C23_Witness ==
    /\ mpc = "sleep"
    /\ miter = MaxIter
    /\ CallsOf("cancel_order") # {}
    /\ \E b, a \in CallsOf("execute_order") :
          mmLog[b].side = "Bid" /\ mmLog[a].side = "Ask"

---------------------------------------------------------------------------
(* Claims about one batch placement. *)

\* the submissions of the batch of a side, in the order of the calls
SubmissionsOf(side) ==
    SelectSeq(mmLog, LAMBDA e : e.call = "execute_order" /\ e.side = side)

\* the batch of the side fetched a book with levels
FetchedLevels(side) ==
    \E n \in CallsOf("get_depth") : mmLog[n].side = side /\ mmLog[n].book # EmptyBook

\* q is an integer multiple of m (m not zero)
MultipleOf(q, m) == (Abs(q) \div Abs(m)) * Abs(m) = Abs(q)

\* C24 as stated: every batch placement called in the iteration attempted
\* exactly max_orders submissions, levels 1..max_orders, each with the
\* quantity align_floor(config.quantity, min_quantity), a multiple of
\* min_quantity not above config.quantity.
C24_ExactlyNSubmissions ==
    \A s \in 1..Len(mmSides) :
        /\ Len(SubmissionsOf(mmSides[s])) = config.max_orders
        /\ \A i \in 1..Len(SubmissionsOf(mmSides[s])) :
              /\ SubmissionsOf(mmSides[s])[i].level = i
              /\ SubmissionsOf(mmSides[s])[i].quantity =
                     align_floor(config.quantity, config.min_quantity)

\* C24, amended: a batch placement that fetched a book with levels attempted
\* exactly max_orders submissions, one per level 1..max_orders in order,
\* whatever the venue answered to each; all carry the one quantity
\* align_floor(config.quantity, min_quantity), a multiple of min_quantity not
\* above config.quantity.  A batch whose alignment or book fetch raised, or
\* whose book answer was no dict or had no levels, attempted none.
C24_SubmissionsOfBatch ==
    \A s \in 1..Len(mmSides) :
        LET subs == SubmissionsOf(mmSides[s])
        IN  IF FetchedLevels(mmSides[s])
            THEN /\ Len(subs) = config.max_orders
                 /\ \A i \in 1..Len(subs) :
                       /\ subs[i].level = i
                       /\ subs[i].quantity =
                              align_floor(config.quantity, config.min_quantity)
                       /\ subs[i].quantity <= config.quantity
                       /\ MultipleOf(subs[i].quantity, config.min_quantity)
            ELSE subs = <<>>

\* a batch of two levels whose first submission failed and whose second was
\* accepted
C24_Witness ==
    \E s \in 1..Len(mmSides) :
        /\ FetchedLevels(mmSides[s])
        /\ Len(SubmissionsOf(mmSides[s])) > 1
        /\ SubmissionsOf(mmSides[s])[1].answer = "raise"
        /\ SubmissionsOf(mmSides[s])[Len(SubmissionsOf(mmSides[s]))].answer = "ok"

\* the identifier list the batch of the side returned, from the answers the
\* venue gave to its submissions
ReturnedIds(side) ==
    BatchReturned(side, config, [kind |-> "book", book |-> FetchedBook(side)], miter,
                  [i \in 1..Len(SubmissionsOf(side)) |-> SubmissionsOf(side)[i].answer])

\* the orders of the side the venue accepted in this iteration
AcceptedIds(side) ==
    {<<miter, side, SubmissionsOf(side)[i].level>> :
        i \in {k \in 1..Len(SubmissionsOf(side)) : SubmissionsOf(side)[k].answer = "ok"}}

\* C27: the identifier list a batch placement returns holds only non-empty
\* identifiers of orders the venue accepted: an empty answer and an answer
\* without an identifier leave no entry in it.
C27_OnlyAcceptedIds ==
    \A s \in 1..Len(mmSides) :
        FetchedLevels(mmSides[s]) =>
            \A n \in 1..Len(ReturnedIds(mmSides[s])) :
                /\ ReturnedIds(mmSides[s])[n] # <<>>
                /\ ReturnedIds(mmSides[s])[n] \in AcceptedIds(mmSides[s])

\* the part of C27 about the loop: an answer of unexpected shape is not
\* fatal, the batch goes on to its last level
C27_BatchContinues ==
    \A s \in 1..Len(mmSides) :
        FetchedLevels(mmSides[s]) => Len(SubmissionsOf(mmSides[s])) = config.max_orders

\* every bid of the book lies below every ask
Uncrossed(book) == SeqMax(book.bids) < SeqMin(book.asks)

\* the prices of the book are multiples of the market's tick size
OnTickGrid(book) ==
    /\ TickValue(config.tick_size) > 0
    /\ \A p \in Range(book.bids) \cup Range(book.asks) :
          p % TickValue(config.tick_size) = 0

\* the iteration called both batch placements and both fetched a book of
\* the market
TwoSidedFetched ==
    /\ Quoted("Bid") /\ Quoted("Ask")
    /\ FetchedLevels("Bid") /\ FetchedLevels("Ask")
    /\ OnTickGrid(FetchedBook("Bid")) /\ OnTickGrid(FetchedBook("Ask"))

\* C29: in a two-sided iteration whose batches each fetched an uncrossed
\* book, every bid price submitted is strictly below every ask price
\* submitted, whatever the book did between the two fetches.
C29_BidsBelowAsks ==
    (/\ TwoSidedFetched
     /\ Uncrossed(FetchedBook("Bid"))
     /\ Uncrossed(FetchedBook("Ask"))) =>
        \A b, a \in CallsOf("execute_order") :
            (mmLog[b].side = "Bid" /\ mmLog[a].side = "Ask")
                => mmLog[b].price < mmLog[a].price

\* C29 for a book that did not change between the two fetches
C29_BidsBelowAsksOfOneBook ==
    (/\ TwoSidedFetched
     /\ Uncrossed(FetchedBook("Bid"))
     /\ FetchedBook("Bid") = FetchedBook("Ask")) =>
        \A b, a \in CallsOf("execute_order") :
            (mmLog[b].side = "Bid" /\ mmLog[a].side = "Ask")
                => mmLog[b].price < mmLog[a].price

---------------------------------------------------------------------------
(* Claims about a failed position fetch. *)

\* the position the primary venue holds in the contract
TruePosition == ContractAmount(bpVenue, config.contract_id)

\* the position fetch of this iteration failed: the iteration is past the
\* fetch and reads 0 while the venue holds a position
PositionFetchFailed ==
    /\ mpc \in {"submit", "sleep", "except"}
    /\ CallsOf("get_open_positions") # {}
    /\ TruePosition # 0
    /\ curr_contract_amount = 0

\* C30: after a failed position fetch the iteration goes on with position 0
\* and takes the two-sided branch, whatever the venue holds: it calls the bid
\* batch and then the ask batch, and each batch that fetched a book with
\* levels submits its ladder.
C30_FailedFetchQuotesBothSides ==
    (/\ mpc \in {"submit", "sleep", "except"}
     /\ CallsOf("get_open_positions") # {}
     /\ curr_contract_amount # TruePosition) =>
        /\ curr_contract_amount = 0
        /\ \A s \in 1..Len(mmSides) : mmSides[s] = <<"Bid", "Ask">>[s]
        /\ mpc = "submit" => Len(mmSides) < Len(<<"Bid", "Ask">>)
        /\ mpc = "sleep" => mmSides = <<"Bid", "Ask">>
        /\ \A s \in 1..Len(mmSides) :
              FetchedLevels(mmSides[s]) =>
                  Len(SubmissionsOf(mmSides[s])) = config.max_orders

\* the venue holds a position at the cap, the fetch failed, and the
\* iteration submitted a bid and an ask ladder
C30_Witness ==
    /\ PositionFetchFailed
    /\ mpc = "sleep"
    /\ Abs(TruePosition) >= config.max_position_count
    /\ SubmissionsOf("Bid") # <<>>
    /\ SubmissionsOf("Ask") # <<>>

---------------------------------------------------------------------------
(* Claims about retries. *)

\* C26: no call is repeated within one iteration.  In a market-making
\* iteration no two submissions carry the same side and level and no two
\* cancel calls name the same order; in a hedging iteration no two
\* submissions belong to the same instruction, whatever the outcome of a
\* call.
C26_NoRetry ==
    /\ InIteration =>
          /\ \A m, n \in CallsOf("execute_order") :
                m # n => <<mmLog[m].side, mmLog[m].level>>
                             # <<mmLog[n].side, mmLog[n].level>>
          /\ \A m, n \in CallsOf("cancel_order") : m # n => mmLog[m].id # mmLog[n].id
    /\ Len(hedgeLog) <= Len(need_hedge_positions)
    /\ \A m, n \in 1..Len(hedgeLog) : m # n => hedgeLog[m].index # hedgeLog[n].index

\* an iteration that cancelled an order and went on after a submission the
\* venue refused
C26_Witness ==
    /\ mpc = "sleep"
    /\ CallsOf("cancel_order") # {}
    /\ \E n \in CallsOf("execute_order") : mmLog[n].answer = "raise"
    /\ \E n \in CallsOf("execute_order") : mmLog[n].answer = "ok"

\* a hedging cycle that went on after a submission the venue refused
C26_HedgeWitness ==
    /\ hpc = "sleep"
    /\ \E n \in 1..Len(hedgeLog) : hedgeLog[n].outcome = "raise"
    /\ Len(hedgeLog) = Len(need_hedge_positions)

---------------------------------------------------------------------------
(* Claims about the periodic status check. *)

\* a step in which run calls _log_status_periodically and the call returns
StatusCall == mpc = "fetch_position" /\ mpc' = "submit"

\* the call queried the open orders and the position
StatusChecked ==
    mmLog' = Append(mmLog, [call |-> "get_open_positions"]) \o StatusLog

\* the call queried nothing: the log gains only the position fetch of run
StatusSkipped == mmLog' = Append(mmLog, [call |-> "get_open_positions"])

RECURSIVE LastThrottledCheck(_)
\* the iteration of the last status check up to iteration n, were the
\* check run on the first call and then only more than 60 seconds after the
\* previous check
LastThrottledCheck(n) ==
    IF n = 1 THEN 1
    ELSE LET m == LastThrottledCheck(n - 1)
         IN  IF clock[n] - clock[m] > 60 THEN n ELSE m

\* C32: _log_status_periodically performs its status check (open-order
\* query, position query, overwrite of active_close_orders) on its first call
\* and afterwards only when more than 60 seconds have passed since the
\* previous status check; a call within 60 seconds of the previous check
\* queries nothing and leaves active_close_orders unchanged.
C32_CheckThrottled ==
    [][StatusCall =>
          IF LastThrottledCheck(miter) = miter
          THEN StatusChecked
          ELSE StatusSkipped /\ UNCHANGED active_close_orders]_vars

\* what the code does instead: last_log_time keeps the value of __init__,
\* and every call performs the status check, however soon after the last
C32_CheckOnEveryCall ==
    [][/\ last_log_time' = last_log_time
       /\ StatusCall => StatusChecked]_vars

\* the first call performs the status check
C32_FirstCallChecks ==
    [][(StatusCall /\ miter = 1) => StatusChecked]_vars

---------------------------------------------------------------------------
(* Claims about the two loops running side by side. *)

\* C22: under every interleaving of the two loops, a step of the hedging
\* loop leaves the market maker's state, the open orders and the positions of
\* the primary venue as they are, and a step of the market-making loop
\* leaves the hedger's state and the secondary venue as they are; a loop that
\* enters its exception handler or ends leaves the other loop's position in
\* its code unchanged.
C22_CyclesIndependent ==
    [][/\ hvars' # hvars => UNCHANGED <<mvars, bpVenue>>
       /\ mvars' # mvars => UNCHANGED <<hvars, bpVenue>>
       /\ (hpc' # hpc /\ hpc' \in {"except", "cancelled"}) => mpc' = mpc
       /\ (mpc' # mpc /\ mpc' \in {"except", "fatal", "finally", "done"})
              => hpc' = hpc]_vars

\* both loops at work: the market maker is in its second iteration after a
\* failed venue call, with an order resting, the hedger is in its second
\* cycle after a market order was filled on the secondary venue
C22_Witness ==
    /\ miter = MaxIter
    /\ faults > 0
    /\ restingOrders # <<>>
    /\ hcycle = MaxCycles
    /\ lgVenue = <<MovedEntry(ETH, 0)>>
    /\ hpc = "sleep"

===========================================================================
